---- MODULE Spec2Model ----
(***************************************************************************)
(* Model of ETVREyeTracker (src/openxr-api-layer/ETVR.cpp): an OSC         *)
(* listener thread that decodes EyesY / LeftEyeX / RightEyeX datagrams,    *)
(* combines a complete triple into a gaze vector under m_mutex, and a host *)
(* thread that starts, polls (isGazeAvailable / getGaze), stops and        *)
(* destroys the tracker.                                                   *)
(*                                                                         *)
(* Representation.                                                         *)
(*  - A channel value v stands for the float v/2 (0 is 0.0, 2 is 1.0).     *)
(*  - Angles are multiples of pi/16; sines and cosines are fixed-point     *)
(*    numbers in units of 1/10000.                                         *)
(*  - The clock counts half seconds, so the 1'000'000'000 ns threshold of  *)
(*    isGazeAvailable is 2 ticks.                                          *)
(*  - A std::optional<float> is <<>> (empty) or <<v>> (engaged).           *)
(***************************************************************************)
EXTENDS Integers, Sequences, FiniteSets, TLC

\* ---------------------------------------------------------------- bounds
\* Largest clock reading explored (half seconds).
MaxClock == 3
\* Number of datagrams the socket delivers in a run with a polling host.
MaxMsgs == 3
\* Number of datagrams the socket delivers in a run without polling.
MaxSeqMsgs == 4

\* ------------------------------------------------------- program constants
\* 1'000'000'000 ns (ETVR.cpp:64), in clock ticks of half a second.
StalenessThreshold == 2

\* ------------------------------------------------------------ wire format
AddrEyesY == "/avatar/parameters/EyesY"
AddrLeftEyeX == "/avatar/parameters/LeftEyeX"
AddrRightEyeX == "/avatar/parameters/RightEyeX"
AddrOther == "/avatar/parameters/Other"

Addresses == {AddrEyesY, AddrLeftEyeX, AddrRightEyeX, AddrOther}

\* Float payloads the sender uses (0.0 and 1.0).
ChannelValues == {0, 2}

FloatArg(v) == <<"f", v>>

IntArg == <<"i", 0>>

\* Argument lists of a datagram: one float (well formed), none, one int32,
\* two floats.
ArgLists ==
    {<<FloatArg(v)>> : v \in ChannelValues}
        \cup {<<>>, <<IntArg>>, <<FloatArg(0), FloatArg(0)>>}

Messages == [addr : Addresses, args : ArgLists]

\* XrTime values a host may pass; the functions ignore the argument.
Times == {0, 9}

\* --------------------------------------------------------------- optional
None == <<>>

Some(v) == <<v>>

HasValue(o) == o # None

Deref(o) == o[1]

\* ------------------------------------------------------------------ state
VARIABLES
    clock,               \* std::chrono::high_resolution_clock reading
    m_started,
    m_socketBreak,       \* break request of m_socket
    m_mutex,             \* "free", "listener" or "caller"
    m_latestGaze,        \* <<x, y, z>>
    m_latestLeftX,
    m_latestRightX,
    m_latestY,
    m_lastReceivedTime,
    listenerPc,          \* position of m_listeningThread
    pmNow,               \* ProcessMessage: local now
    pmUnitVector,        \* ProcessMessage: local unitVector
    callerPc,            \* position of the host thread
    callerOp,            \* entry point of the call in progress / last made
    callerTime,          \* its XrTime argument
    callerNow,           \* isGazeAvailable: local now
    callerAvail,         \* value returned by isGazeAvailable
    callerRet,           \* "pending", "true", "false": value returned
    out,                 \* the caller's XrVector3f
    outWritten,          \* indices of out assigned by the call
    \* history variables (not program state)
    log,                 \* per dispatched datagram: channel stored, or "ignored"
    combinedAt,          \* indices of the datagrams whose processing combined
    arrivedSince,        \* channels stored since the last combination
    produced,            \* vectors written by combination steps
    fresh,               \* <<vector, timestamp>> of the latest combination
    lastRecv,            \* per channel: the value most recently received
    callerSaw,           \* combinations completed when the call read the time
    pcAtBreak,           \* listenerPc when the destructor issued the break
    stopReturned,        \* stop() has returned on a started tracker
    joined               \* the destructor joined the thread

vars == <<clock, m_started, m_socketBreak, m_mutex, m_latestGaze,
          m_latestLeftX, m_latestRightX, m_latestY, m_lastReceivedTime,
          listenerPc, pmNow, pmUnitVector, callerPc, callerOp, callerTime,
          callerNow, callerAvail, callerRet, out, outWritten, log,
          combinedAt, arrivedSince, produced, fresh, lastRecv, callerSaw,
          pcAtBreak, stopReturned, joined>>

trackerVars == <<m_latestGaze, m_latestLeftX, m_latestRightX, m_latestY,
                 m_lastReceivedTime>>

listenerVars == <<listenerPc, pmNow, pmUnitVector>>

callVars == <<callerOp, callerTime, callerNow, callerAvail, callerRet, out,
              outWritten>>

historyVars == <<log, combinedAt, arrivedSince, produced, fresh, lastRecv>>

lifeVars == <<callerSaw, pcAtBreak, stopReturned, joined>>

ZeroVector == <<0, 0, 0>>

\* Content of the caller's vector before a call.
CallerGarbage == <<1, 1, 1>>

\* ------------------------------------------------------ pure computations
\* sin(k*pi/16) and cos(k*pi/16), k = 1..4, in units of 1/10000.
SinQ == <<1951, 3827, 5556, 7071>>

CosQ == <<9808, 9239, 8315, 7071>>

Sin(k) == IF k = 0 THEN 0 ELSE IF k > 0 THEN SinQ[k] ELSE -SinQ[-k]

Cos(k) == IF k = 0 THEN 10000 ELSE IF k > 0 THEN CosQ[k] ELSE CosQ[-k]

\* Rounded fixed-point product.
Mul(a, b) ==
    LET p == a * b
    IN IF p >= 0 THEN (p + 5000) \div 10000 ELSE -((5000 - p) \div 10000)

\* angleHorizontal = -(R*pi/4 + L*pi/4)/2 in units of pi/16 (R, L in halves).
AngleHorizontal(L, R) == -(R + L)

\* angleVertical = V*pi/4 in units of pi/16 (V in halves).
AngleVertical(V) == 2 * V

\* Faulty variant: z without the factor cos(angleVertical).
Combine_FlatZ(L, R, V) ==
    LET aH == AngleHorizontal(L, R)
        aV == AngleVertical(V)
    IN <<Mul(Sin(aH), Cos(aV)), Sin(aV), -Cos(aH)>>

\* The unitVector of the combination step.
Combine(L, R, V) ==
    LET aH == AngleHorizontal(L, R)
        aV == AngleVertical(V)
    IN <<Mul(Sin(aH), Cos(aV)), Sin(aV), -Mul(Cos(aH), Cos(aV))>>

\* args >> f >> osc::EndMessage: the float, or an osc::Exception
\* (MissingArgument, WrongArgumentType, ExcessArgument) thrown before the
\* statement that follows it.
ParseFloat(args) ==
    IF Len(args) = 0
    THEN [ok |-> FALSE, val |-> 0, err |-> "MissingArgumentException"]
    ELSE IF args[1][1] # "f"
    THEN [ok |-> FALSE, val |-> 0, err |-> "WrongArgumentTypeException"]
    ELSE IF Len(args) > 1
    THEN [ok |-> FALSE, val |-> 0, err |-> "ExcessArgumentException"]
    ELSE [ok |-> TRUE, val |-> args[1][2], err |-> "none"]

\* Faulty variant: the member is assigned after `args >> temp`, before
\* `>> osc::EndMessage` has been checked.
StoreChannel_BeforeEndMessage(member, addr, m) ==
    IF m.addr = addr /\ Len(m.args) > 0 /\ m.args[1][1] = "f"
    THEN Some(m.args[1][2])
    ELSE member

\* Faulty variant: a sample that is present keeps its value.
StoreChannel_KeepFirst(member, addr, m) ==
    IF m.addr = addr /\ ParseFloat(m.args).ok /\ ~HasValue(member)
    THEN Some(ParseFloat(m.args).val)
    ELSE member

\* The optional after the `if (address == addr) { parse; member = temp; }`
\* block of ProcessMessage for the channel of address addr.
StoreChannel(member, addr, m) ==
    IF m.addr = addr /\ ParseFloat(m.args).ok
    THEN Some(ParseFloat(m.args).val)
    ELSE member

\* The exception that leaves the try block of ProcessMessage, or "none".
Thrown(m) == IF m.addr = AddrOther THEN "none" ELSE ParseFloat(m.args).err

\* catch (osc::Exception& e): the three argument exceptions derive from it.
Caught(e) ==
    e \in {"MissingArgumentException", "WrongArgumentTypeException",
           "ExcessArgumentException"}

\* if (m_latestY && m_latestLeftX && m_latestRightX)
TripleComplete(y, l, r) == HasValue(y) /\ HasValue(l) /\ HasValue(r)

\* Faulty variant: the threshold itself still counts as fresh.
IsFresh_Inclusive(now, last) == now - last <= StalenessThreshold

\* (now - m_lastReceivedTime).count() < 1'000'000'000
IsFresh(now, last) == now - last < StalenessThreshold

\* Exceptions the constructor of m_socket can raise when the port cannot
\* be bound.
BindErrors == {"std::runtime_error", "osc::Exception", "other"}

\* Faulty variant: the factory catches what ProcessMessage catches.
CatchAll_OscOnly(e) == e = "osc::Exception" \/ Caught(e)

\* catch (...)
CatchAll(e) == e # "none"

\* ------------------------------------------------------------------- Init
\* The members as their initialisers leave them.
MembersInit ==
    /\ clock \in 0..MaxClock
    /\ m_started = FALSE
    /\ m_socketBreak = FALSE
    /\ m_mutex = "free"
    /\ m_latestGaze = ZeroVector
    /\ m_latestLeftX = None
    /\ m_latestRightX = None
    /\ m_latestY = None
    /\ m_lastReceivedTime = 0
    /\ listenerPc = "unspawned"
    /\ pmNow = 0
    /\ pmUnitVector = ZeroVector
    /\ callerOp = "none"
    /\ callerTime = 0
    /\ callerNow = 0
    /\ callerAvail = FALSE
    /\ callerRet = "pending"
    /\ out = CallerGarbage
    /\ outWritten = {}
    /\ log = <<>>
    /\ combinedAt = {}
    /\ arrivedSince = {}
    /\ produced = {}
    /\ fresh = None
    /\ lastRecv = [c \in {"Y", "L", "R"} |-> None]
    /\ callerSaw = 0
    /\ pcAtBreak = "none"
    /\ stopReturned = FALSE
    /\ joined = FALSE

\* The tracker after construction.
Init == MembersInit /\ callerPc = "idle"

\* Before createETVREyeTracker has been called.
InitCreate == MembersInit /\ callerPc = "creating"

\* ---------------------------------------------------------------- factory
\* std::make_unique<ETVREyeTracker>(): the constructor builds m_socket bound
\* to port 9000; when the bind fails the constructor of m_socket throws and
\* the members built so far are destroyed.
ETVREyeTracker_Construct(bindOk, e) ==
    /\ callerPc = "creating"
    /\ callerOp' = "create"
    /\ callerRet' = IF bindOk THEN "none" ELSE e
    /\ callerPc' = IF bindOk THEN "constructed" ELSE "throwing"
    /\ UNCHANGED <<clock, m_started, m_socketBreak, m_mutex, trackerVars,
                   listenerVars, callerTime, callerNow, callerAvail, out,
                   outWritten, historyVars, lifeVars>>

\* createETVREyeTracker: return the instance, or {} from the handler; an
\* exception the handler does not catch unwinds into the caller.
CreateETVREyeTracker_Return ==
    /\ callerPc \in {"constructed", "throwing"}
    /\ callerPc' = IF callerPc = "constructed" THEN "idle"
                   ELSE IF CatchAll(callerRet) THEN "null"
                   ELSE "unwound"
    /\ callerOp' = "none"
    /\ callerRet' = "pending"
    /\ UNCHANGED <<clock, m_started, m_socketBreak, m_mutex, trackerVars,
                   listenerVars, callerTime, callerNow, callerAvail, out,
                   outWritten, historyVars, lifeVars>>

\* The clock advances between any two steps.
Tick ==
    /\ clock < MaxClock
    /\ clock' = clock + 1
    /\ UNCHANGED <<m_started, m_socketBreak, m_mutex, trackerVars,
                   listenerVars, callerPc, callVars, historyVars,
                   lifeVars>>

\* ------------------------------------------------- host thread: lifecycle
\* start(): spawns m_listeningThread running m_socket.Run(), sets m_started.
Start ==
    /\ callerPc = "idle"
    /\ ~m_started
    /\ listenerPc' = "spawned"
    /\ m_started' = TRUE
    /\ UNCHANGED <<clock, m_socketBreak, m_mutex, trackerVars, pmNow,
                   pmUnitVector, callerPc, callVars, historyVars,
                   lifeVars>>

\* stop(): the body is empty.
Stop ==
    /\ callerPc = "idle"
    /\ m_started
    /\ stopReturned' = TRUE
    /\ UNCHANGED <<clock, m_started, m_socketBreak, m_mutex, trackerVars,
                   listenerVars, callerPc, callVars, historyVars, callerSaw,
                   pcAtBreak, joined>>

\* ~ETVREyeTracker(): if (m_started) ...
Destructor_Enter ==
    /\ callerPc = "idle"
    /\ callerPc' = IF m_started THEN "dtor_break" ELSE "destroyed"
    /\ UNCHANGED <<clock, m_started, m_socketBreak, m_mutex, trackerVars,
                   listenerVars, callVars, historyVars, lifeVars>>

\* m_socket.AsynchronousBreak();
Destructor_Break ==
    /\ callerPc = "dtor_break"
    /\ m_socketBreak' = TRUE
    /\ pcAtBreak' = listenerPc
    /\ callerPc' = "dtor_join"
    /\ UNCHANGED <<clock, m_started, m_mutex, trackerVars, listenerVars,
                   callVars, historyVars, callerSaw, stopReturned, joined>>

\* Faulty variant: the destructor returns without joining.
Destructor_Join_NoWait ==
    /\ callerPc = "dtor_join"
    /\ callerPc' = "destroyed"
    /\ UNCHANGED <<clock, m_started, m_socketBreak, m_mutex, trackerVars,
                   listenerVars, callVars, historyVars, lifeVars>>

\* m_listeningThread.join(); then the destructor returns.
Destructor_Join ==
    /\ callerPc = "dtor_join"
    /\ listenerPc = "exited"
    /\ joined' = TRUE
    /\ callerPc' = "destroyed"
    /\ UNCHANGED <<clock, m_started, m_socketBreak, m_mutex, trackerVars,
                   listenerVars, callVars, historyVars, callerSaw, pcAtBreak,
                   stopReturned>>

\* --------------------------------------------------- host thread: polling
\* Entry of isGazeAvailable(time), directly or as the first statement of
\* getGaze(time, unitVector): now = clock::now().
Call(op, time) ==
    /\ callerPc = "idle"
    /\ callerOp' = op
    /\ callerTime' = time
    /\ callerNow' = clock
    /\ callerAvail' = FALSE
    /\ callerRet' = "pending"
    /\ callerSaw' = 0
    /\ out' = CallerGarbage
    /\ outWritten' = {}
    /\ callerPc' = "iga_lock"
    /\ UNCHANGED <<clock, m_started, m_socketBreak, m_mutex, trackerVars,
                   listenerVars, historyVars, pcAtBreak, stopReturned,
                   joined>>

\* isGazeAvailable: std::unique_lock lock(m_mutex);
IsGazeAvailable_Lock ==
    /\ callerPc = "iga_lock"
    /\ m_mutex = "free"
    /\ m_mutex' = "caller"
    /\ callerPc' = "iga_locked"
    /\ UNCHANGED <<clock, m_started, m_socketBreak, trackerVars, listenerVars,
                   callVars, historyVars, lifeVars>>

\* Faulty variant: getGaze still holds the lock of the availability check
\* when it goes on to lock m_mutex itself.
IsGazeAvailable_Return_KeepLock ==
    /\ callerPc = "iga_locked"
    /\ LET avail == IsFresh(callerNow, m_lastReceivedTime)
           cont == callerOp = "getGaze" /\ avail
       IN /\ callerAvail' = avail
          /\ callerRet' = IF callerOp = "isGazeAvailable"
                          THEN (IF avail THEN "true" ELSE "false")
                          ELSE (IF avail THEN "pending" ELSE "false")
          /\ callerPc' = IF cont THEN "gg_lock" ELSE "idle"
          /\ callerTime' = IF cont THEN callerTime ELSE 0
          /\ callerNow' = IF cont THEN callerNow ELSE 0
          /\ m_mutex' = IF cont THEN "caller" ELSE "free"
    /\ callerSaw' = Cardinality(combinedAt)
    /\ UNCHANGED <<clock, m_started, m_socketBreak, trackerVars, listenerVars,
                   callerOp, out, outWritten, historyVars, pcAtBreak,
                   stopReturned, joined>>

\* Faulty variant: getGaze goes on to the copy whatever the check returned.
IsGazeAvailable_Return_IgnoreResult ==
    /\ callerPc = "iga_locked"
    /\ LET avail == IsFresh(callerNow, m_lastReceivedTime)
           cont == callerOp = "getGaze"
       IN /\ callerAvail' = avail
          /\ callerRet' = IF cont THEN "pending"
                          ELSE IF avail THEN "true" ELSE "false"
          /\ callerPc' = IF cont THEN "gg_lock" ELSE "idle"
          /\ callerTime' = IF cont THEN callerTime ELSE 0
          /\ callerNow' = IF cont THEN callerNow ELSE 0
    /\ callerSaw' = Cardinality(combinedAt)
    /\ m_mutex' = "free"
    /\ UNCHANGED <<clock, m_started, m_socketBreak, trackerVars, listenerVars,
                   callerOp, out, outWritten, historyVars, pcAtBreak,
                   stopReturned, joined>>

\* isGazeAvailable: return (now - m_lastReceivedTime).count() < 1e9, which
\* unlocks; in getGaze, `if (!isGazeAvailable(time)) return false;`.
IsGazeAvailable_Return ==
    /\ callerPc = "iga_locked"
    /\ LET avail == IsFresh(callerNow, m_lastReceivedTime)
       IN /\ callerAvail' = avail
          /\ callerRet' = IF callerOp = "isGazeAvailable"
                          THEN (IF avail THEN "true" ELSE "false")
                          ELSE (IF avail THEN "pending" ELSE "false")
          /\ callerPc' = IF callerOp = "getGaze" /\ avail
                         THEN "gg_lock" ELSE "idle"
          /\ callerTime' = IF callerOp = "getGaze" /\ avail
                           THEN callerTime ELSE 0
          /\ callerNow' = IF callerOp = "getGaze" /\ avail
                          THEN callerNow ELSE 0
    /\ callerSaw' = Cardinality(combinedAt)
    /\ m_mutex' = "free"
    /\ UNCHANGED <<clock, m_started, m_socketBreak, trackerVars, listenerVars,
                   callerOp, out, outWritten, historyVars, pcAtBreak,
                   stopReturned, joined>>

\* getGaze: std::unique_lock lock(m_mutex);
GetGaze_Lock ==
    /\ callerPc = "gg_lock"
    /\ m_mutex = "free"
    /\ m_mutex' = "caller"
    /\ callerPc' = "gg_copy_1"
    /\ UNCHANGED <<clock, m_started, m_socketBreak, trackerVars, listenerVars,
                   callVars, historyVars, lifeVars>>

CopyPc == <<"gg_copy_1", "gg_copy_2", "gg_copy_3", "gg_copied">>

\* getGaze: unitVector = m_latestGaze; one float (x, y, z) at a time.
GetGaze_Copy ==
    /\ \E i \in 1..3 :
          /\ callerPc = CopyPc[i]
          /\ out' = [out EXCEPT ![i] = m_latestGaze[i]]
          /\ outWritten' = outWritten \cup {i}
          /\ callerPc' = CopyPc[i + 1]
    /\ UNCHANGED <<clock, m_started, m_socketBreak, m_mutex, trackerVars,
                   listenerVars, callerOp, callerTime, callerNow, callerAvail,
                   callerRet, historyVars, lifeVars>>

\* getGaze: return true; which unlocks.
GetGaze_Return ==
    /\ callerPc = "gg_copied"
    /\ callerRet' = "true"
    /\ m_mutex' = "free"
    /\ callerPc' = "idle"
    /\ callerTime' = 0
    /\ callerNow' = 0
    /\ UNCHANGED <<clock, m_started, m_socketBreak, trackerVars, listenerVars,
                   callerOp, callerAvail, out, outWritten, historyVars,
                   lifeVars>>

\* -------------------------------------------------------- listener thread
\* The thread enters m_socket.Run() and blocks in the receive.
Run_Enter ==
    /\ listenerPc = "spawned"
    /\ listenerPc' = "recv"
    /\ UNCHANGED <<clock, m_started, m_socketBreak, m_mutex, trackerVars,
                   pmNow, pmUnitVector, callerPc, callVars, historyVars,
                   lifeVars>>

\* The blocked receive is woken by the break: Run() returns, the thread ends.
Run_Break ==
    /\ listenerPc = "recv"
    /\ m_socketBreak
    /\ listenerPc' = "exited"
    /\ UNCHANGED <<clock, m_started, m_socketBreak, m_mutex, trackerVars,
                   pmNow, pmUnitVector, callerPc, callVars, historyVars,
                   lifeVars>>

\* Channel a datagram is stored into, "ignored" when it stores nothing.
Stored(m) ==
    IF ~ParseFloat(m.args).ok THEN "ignored"
    ELSE IF m.addr = AddrEyesY THEN "Y"
    ELSE IF m.addr = AddrLeftEyeX THEN "L"
    ELSE IF m.addr = AddrRightEyeX THEN "R"
    ELSE "ignored"

\* Run() dispatches datagram m to ProcessMessage, which runs up to the
\* mutex: now, the three address blocks, the test of the triple and the
\* computation of unitVector; an osc::Exception is caught and dropped, any
\* other exception would leave the thread function (std::terminate).
ProcessMessage(m) ==
    /\ listenerPc = "recv"
    /\ ~m_socketBreak
    /\ LET y == StoreChannel(m_latestY, AddrEyesY, m)
           l == StoreChannel(m_latestLeftX, AddrLeftEyeX, m)
           r == StoreChannel(m_latestRightX, AddrRightEyeX, m)
           e == Thrown(m)
           complete == e = "none" /\ TripleComplete(y, l, r)
       IN /\ m_latestY' = y
          /\ m_latestLeftX' = l
          /\ m_latestRightX' = r
          /\ pmNow' = IF complete THEN clock ELSE 0
          /\ pmUnitVector' = IF complete
                             THEN Combine(Deref(l), Deref(r), Deref(y))
                             ELSE ZeroVector
          /\ listenerPc' = IF complete THEN "lock"
                           ELSE IF e = "none" \/ Caught(e) THEN "recv"
                           ELSE "terminated"
    /\ log' = Append(log, Stored(m))
    /\ arrivedSince' = arrivedSince \cup ({Stored(m)} \ {"ignored"})
    /\ lastRecv' = IF Stored(m) = "ignored" THEN lastRecv
                   ELSE [lastRecv EXCEPT ![Stored(m)] = Some(m.args[1][2])]
    /\ UNCHANGED <<clock, m_started, m_socketBreak, m_mutex, m_latestGaze,
                   m_lastReceivedTime, callerPc, callVars, combinedAt,
                   produced, fresh, lifeVars>>

\* Faulty variant: the combination is written without taking m_mutex.
ProcessMessage_Lock_NoAcquire ==
    /\ listenerPc = "lock"
    /\ listenerPc' = "write_1"
    /\ UNCHANGED <<clock, m_started, m_socketBreak, m_mutex, trackerVars,
                   pmNow, pmUnitVector, callerPc, callVars, historyVars,
                   lifeVars>>

\* ProcessMessage: std::unique_lock lock(m_mutex);
ProcessMessage_Lock ==
    /\ listenerPc = "lock"
    /\ m_mutex = "free"
    /\ m_mutex' = "listener"
    /\ listenerPc' = "write_1"
    /\ UNCHANGED <<clock, m_started, m_socketBreak, trackerVars, pmNow,
                   pmUnitVector, callerPc, callVars, historyVars,
                   lifeVars>>

WritePc == <<"write_1", "write_2", "write_3", "stamp">>

\* ProcessMessage: m_latestGaze = unitVector; one float at a time.
ProcessMessage_WriteGaze ==
    /\ \E i \in 1..3 :
          /\ listenerPc = WritePc[i]
          /\ m_latestGaze' = [m_latestGaze EXCEPT ![i] = pmUnitVector[i]]
          /\ listenerPc' = WritePc[i + 1]
    /\ UNCHANGED <<clock, m_started, m_socketBreak, m_mutex, m_latestLeftX,
                   m_latestRightX, m_latestY, m_lastReceivedTime, pmNow,
                   pmUnitVector, callerPc, callVars, historyVars,
                   lifeVars>>

\* Faulty variant: the combination leaves m_lastReceivedTime as it was.
ProcessMessage_Stamp_NoTimestamp ==
    /\ listenerPc = "stamp"
    /\ listenerPc' = "reset"
    /\ combinedAt' = combinedAt \cup {Len(log)}
    /\ produced' = produced \cup {pmUnitVector}
    /\ fresh' = <<pmUnitVector, pmNow>>
    /\ arrivedSince' = {}
    /\ UNCHANGED <<clock, m_started, m_socketBreak, m_mutex, trackerVars,
                   pmNow, pmUnitVector, callerPc, callVars, log, lastRecv,
                   lifeVars>>

\* ProcessMessage: m_lastReceivedTime = now; the combination is complete.
ProcessMessage_Stamp ==
    /\ listenerPc = "stamp"
    /\ m_lastReceivedTime' = pmNow
    /\ listenerPc' = "reset"
    /\ combinedAt' = combinedAt \cup {Len(log)}
    /\ produced' = produced \cup {pmUnitVector}
    /\ fresh' = <<pmUnitVector, pmNow>>
    /\ arrivedSince' = {}
    /\ UNCHANGED <<clock, m_started, m_socketBreak, m_mutex, m_latestGaze,
                   m_latestLeftX, m_latestRightX, m_latestY, pmNow,
                   pmUnitVector, callerPc, callVars, log, lastRecv, lifeVars>>

\* Faulty variant: m_latestRightX is not reset either.
ProcessMessage_Reset_KeepRight ==
    /\ listenerPc = "reset"
    /\ m_latestLeftX' = None
    /\ m_mutex' = "free"
    /\ listenerPc' = "recv"
    /\ pmNow' = 0
    /\ pmUnitVector' = ZeroVector
    /\ UNCHANGED <<clock, m_started, m_socketBreak, m_latestGaze, m_latestY,
                   m_latestRightX, m_lastReceivedTime, callerPc, callVars,
                   historyVars, lifeVars>>

\* ProcessMessage: m_latestLeftX.reset(); m_latestLeftX.reset();
\* m_latestRightX.reset(); then the lock goes out of scope and the call
\* returns to Run().
ProcessMessage_Reset ==
    /\ listenerPc = "reset"
    /\ m_latestLeftX' = None
    /\ m_latestRightX' = None
    /\ m_mutex' = "free"
    /\ listenerPc' = "recv"
    /\ pmNow' = 0
    /\ pmUnitVector' = ZeroVector
    /\ UNCHANGED <<clock, m_started, m_socketBreak, m_latestGaze, m_latestY,
                   m_lastReceivedTime, callerPc, callVars, historyVars,
                   lifeVars>>

\* ------------------------------------------------------------------- Next
Next ==
    \/ Tick
    \/ Start
    \/ Stop
    \/ Destructor_Enter
    \/ Destructor_Break
    \/ Destructor_Join
    \/ \E op \in {"isGazeAvailable", "getGaze"}, time \in Times :
          Call(op, time)
    \/ IsGazeAvailable_Lock
    \/ IsGazeAvailable_Return
    \/ GetGaze_Lock
    \/ GetGaze_Copy
    \/ GetGaze_Return
    \/ Run_Enter
    \/ Run_Break
    \/ \E m \in Messages : Len(log) < MaxMsgs /\ ProcessMessage(m)
    \/ ProcessMessage_Lock
    \/ ProcessMessage_WriteGaze
    \/ ProcessMessage_Stamp
    \/ ProcessMessage_Reset

Spec == Init /\ [][Next]_vars

\* Steps of a poll, and steps of the critical section of ProcessMessage.
PollNext ==
    \/ IsGazeAvailable_Lock
    \/ IsGazeAvailable_Return
    \/ GetGaze_Lock
    \/ GetGaze_Copy
    \/ GetGaze_Return

CriticalNext ==
    \/ ProcessMessage_WriteGaze
    \/ ProcessMessage_Stamp
    \/ ProcessMessage_Reset

\* A started tracker and a polling host, without stop and teardown, at one
\* instant of the clock (Init chooses it): waiting for the mutex does not
\* depend on the passage of time.
NextPoll ==
    \/ Start
    \/ \E op \in {"isGazeAvailable", "getGaze"}, time \in Times :
          Call(op, time)
    \/ PollNext
    \/ Run_Enter
    \/ \E m \in Messages : Len(log) < MaxMsgs /\ ProcessMessage(m)
    \/ ProcessMessage_Lock
    \/ CriticalNext

\* Both threads are scheduled: a polling call that can take a step takes
\* one, and so does a listener inside its critical section.
SpecFair ==
    Init /\ [][NextPoll]_vars /\ WF_vars(PollNext) /\ WF_vars(CriticalNext)

\* The factory, then the tracker it returned.
NextCreate ==
    \/ \E bindOk \in BOOLEAN, e \in BindErrors :
          ETVREyeTracker_Construct(bindOk, e)
    \/ CreateETVREyeTracker_Return
    \/ NextPoll

SpecCreate == InitCreate /\ [][NextCreate]_vars

\* Channel values over the whole range [-1, 1], in halves.
UnitRange == {-2, -1, 0, 1, 2}

UnitMessages ==
    [addr : {AddrEyesY, AddrLeftEyeX, AddrRightEyeX},
     args : {<<FloatArg(v)>> : v \in UnitRange}]

\* The listener alone, fed well-formed datagrams with every value of the
\* range, at one instant of the clock.
InitCombine == Init /\ clock = 0

NextCombine ==
    \/ Start
    \/ Run_Enter
    \/ \E m \in UnitMessages : Len(log) < MaxMsgs /\ ProcessMessage(m)
    \/ ProcessMessage_Lock
    \/ CriticalNext

SpecCombine == InitCombine /\ [][NextCombine]_vars

\* The same tracker with a host that never polls: longer datagram sequences.
NextListener ==
    \/ Tick
    \/ Start
    \/ Stop
    \/ Destructor_Enter
    \/ Destructor_Break
    \/ Destructor_Join
    \/ Run_Enter
    \/ Run_Break
    \/ \E m \in Messages : Len(log) < MaxSeqMsgs /\ ProcessMessage(m)
    \/ ProcessMessage_Lock
    \/ ProcessMessage_WriteGaze
    \/ ProcessMessage_Stamp
    \/ ProcessMessage_Reset

SpecListener == Init /\ [][NextListener]_vars

\* ================================================================= claims
NumCombined == Cardinality(combinedAt)

\* A poll has returned to the host.
Returned(op) == callerPc = "idle" /\ callerOp = op /\ callerRet # "pending"

\* C1: every vector that getGaze returns with result true equals, in all
\* three fields, one vector that a single combination step wrote.
C1_ReturnedVectorWasCombined ==
    (Returned("getGaze") /\ callerRet = "true") => out \in produced

\* The copy itself is never torn: a returned vector is one whole value that
\* m_latestGaze held, the value-initialised one included.
NoTornCopy ==
    (Returned("getGaze") /\ callerRet = "true")
        => out \in produced \cup {ZeroVector}

\* C2: getGaze returns false and leaves the caller's vector unwritten when
\* isGazeAvailable is false at call time; otherwise it returns true with a
\* copy of the last combined gaze vector.
C2_GetGazeContract ==
    /\ (Returned("getGaze") /\ ~callerAvail)
          => (callerRet = "false" /\ outWritten = {} /\ out = CallerGarbage)
    /\ (Returned("getGaze") /\ callerAvail) => callerRet = "true"
    /\ (callerOp = "getGaze" /\ callerPc = "gg_copied")
          => (HasValue(fresh) /\ out = fresh[1])

\* C3: once a gaze vector has been produced, isGazeAvailable returns true
\* exactly when the time elapsed between the freshness timestamp of the
\* latest combination and the clock reading of the call is below 1 second
\* (2 ticks): true with no time elapsed, false with more than 1 second
\* elapsed, for each value of the time argument.
C3_AvailableIffFresh ==
    [][(callerPc = "iga_locked" /\ callerPc' # "iga_locked"
            /\ HasValue(fresh))
          => LET elapsed == callerNow - fresh[2]
             IN /\ callerAvail' <=> (elapsed < 2)
                /\ elapsed = 0 => callerAvail'
                /\ elapsed > 2 => ~callerAvail']_vars

\* isGazeAvailable(9) has returned false on a vector that went stale.
C3_Witness ==
    /\ Returned("isGazeAvailable")
    /\ callerRet = "false"
    /\ callerSaw > 0
    /\ m_lastReceivedTime = fresh[2]
    /\ clock - m_lastReceivedTime > 2

\* C4: before any triple has completed, isGazeAvailable returns false and
\* getGaze returns false, for every reading of the clock.
C4_UnavailableBeforeFirstTriple ==
    ((Returned("isGazeAvailable") \/ Returned("getGaze")) /\ callerSaw = 0)
        => callerRet = "false"

Channels == {"Y", "L", "R"}

\* The first k datagrams were well-formed messages of k different channels.
DistinctChannels(k) ==
    /\ Len(log) >= k
    /\ \A i \in 1..k : log[i] \in Channels
    /\ \A i, j \in 1..k : i # j => log[i] # log[j]

\* The listener is between two datagrams (or has not started, or has ended).
BetweenDatagrams == listenerPc \in {"unspawned", "spawned", "recv", "exited"}

\* C5: from three absent channel samples, EyesY, LeftEyeX and RightEyeX fed
\* once each in any order give exactly one combination: none on the first
\* two messages, one while the third is processed (before the next datagram
\* is received), and none on one further recognized message.
C5_OneCombinationPerTriple ==
    /\ DistinctChannels(1) => 1 \notin combinedAt
    /\ DistinctChannels(2) => 2 \notin combinedAt
    /\ DistinctChannels(3) =>
          /\ combinedAt \cap {1, 2} = {}
          /\ listenerPc # "terminated"
          /\ (BetweenDatagrams \/ Len(log) > 3) => 3 \in combinedAt
          /\ (Len(log) >= 4 /\ log[4] \in Channels) => 4 \notin combinedAt
          /\ (Len(log) = 4 /\ log[4] \in Channels /\ BetweenDatagrams)
                => combinedAt = {3}

\* The three messages and one further recognized message have been processed.
C5_Witness ==
    /\ DistinctChannels(3)
    /\ Len(log) = 4
    /\ log[4] \in Channels
    /\ listenerPc = "recv"
    /\ combinedAt = {3}

\* C6: after every successful combination the three channel samples
\* (m_latestLeftX, m_latestRightX, m_latestY) are absent.
C6_AllAbsentAfterCombination ==
    (listenerPc = "recv" /\ Len(log) \in combinedAt)
        => (~HasValue(m_latestLeftX) /\ ~HasValue(m_latestRightX)
               /\ ~HasValue(m_latestY))

\* C7: a channel sample is present exactly when a message for its channel
\* has arrived since the last successful combination, so every combination
\* uses three values that arrived after the previous one.
C7_PresentIffArrivedSince ==
    /\ BetweenDatagrams =>
          /\ HasValue(m_latestY) <=> "Y" \in arrivedSince
          /\ HasValue(m_latestLeftX) <=> "L" \in arrivedSince
          /\ HasValue(m_latestRightX) <=> "R" \in arrivedSince
    /\ listenerPc = "lock" => arrivedSince = Channels

\* A datagram the decoder must drop: unknown address, or a recognized
\* address whose argument list is not exactly one float.
BadDatagram(m) ==
    \/ m.addr \notin {AddrEyesY, AddrLeftEyeX, AddrRightEyeX}
    \/ Len(m.args) # 1
    \/ m.args[1][1] # "f"

\* C8: a malformed datagram or one with an unrecognized address changes no
\* channel sample, lets no error out of ProcessMessage, and leaves the
\* listening task receiving the next datagram.
C8_BadDatagramDropped ==
    [][\A m \in Messages :
          (BadDatagram(m) /\ ProcessMessage(m))
              => /\ UNCHANGED <<m_latestY, m_latestLeftX, m_latestRightX>>
                 /\ listenerPc' = "recv"]_vars

\* A bad datagram has been dropped while a sample was pending, which is kept.
C8_Witness ==
    /\ Len(log) >= 2
    /\ log[Len(log) - 1] = "Y"
    /\ log[Len(log)] = "ignored"
    /\ HasValue(m_latestY)
    /\ listenerPc = "recv"

\* C9: after stop() has returned on a started tracker no datagram is
\* dispatched and the channel samples, the gaze vector and the freshness
\* timestamp never change again.
C9_StopIsTerminal ==
    [][stopReturned => (UNCHANGED trackerVars /\ log' = log)]_vars

PmInFlight(pc) ==
    pc \in {"lock", "write_1", "write_2", "write_3", "stamp", "reset"}

C10_State ==
    /\ (callerPc = "destroyed" /\ m_started)
          => /\ m_socketBreak
             /\ joined
             /\ listenerPc = "exited"
             /\ m_mutex = "free"
             /\ PmInFlight(pcAtBreak)
                   => /\ Len(log) \in combinedAt
                      /\ m_latestGaze = fresh[1]
                      /\ m_lastReceivedTime = fresh[2]
    /\ (callerPc = "destroyed" /\ ~m_started)
          => (~m_socketBreak /\ ~joined /\ listenerPc = "unspawned")

C10_Step ==
    /\ callerPc = "destroyed" => UNCHANGED <<listenerVars, trackerVars, log>>
    /\ (listenerPc' = "exited" /\ listenerPc # "exited")
          => ~PmInFlight(listenerPc)

\* C10: the destructor of a started tracker issues the break and joins the
\* thread before it returns; a ProcessMessage in flight at the break runs to
\* completion first; nothing of ProcessMessage runs after the destructor
\* has returned; a tracker never started gets no break and no join.
C10_DestructorJoins == []C10_State /\ [][C10_Step]_vars

\* The destructor has returned after a break issued during a combination.
C10_Witness ==
    /\ callerPc = "destroyed"
    /\ joined
    /\ pcAtBreak = "write_2"
    /\ Len(log) \in combinedAt

\* The join of the destructor is not stuck: with no datagram received, the
\* thread has ended or its next step (entering the loop, seeing the break)
\* is enabled.
C11_JoinCanReturn ==
    (callerPc = "dtor_join" /\ log = <<>>)
        => (listenerPc = "exited" \/ ENABLED Run_Enter \/ ENABLED Run_Break)

\* A getGaze called after stop() returned, no datagram received, returns.
C11_GetGazeAfterStop ==
    (stopReturned /\ log = <<>> /\ callerOp = "getGaze"
        /\ callerPc # "idle" /\ callerPc' = "idle")
        => callerRet' = "false"

\* C11: stop()/teardown right after start() with no message received always
\* completes, whether the break comes before or after the thread entered
\* its receive loop, and afterwards getGaze returns false.
C11_ImmediateStop == []C11_JoinCanReturn /\ [][C11_GetGazeAfterStop]_vars

PollInProgress ==
    callerPc \in {"iga_lock", "iga_locked", "gg_lock", "gg_copy_1",
                  "gg_copy_2", "gg_copy_3", "gg_copied"}

C12_State ==
    \* a thread about to lock m_mutex does not hold it
    /\ callerPc \in {"iga_lock", "gg_lock"} => m_mutex # "caller"
    /\ listenerPc = "lock" => m_mutex # "listener"
    \* the listener does not hold it while it waits in the receive
    /\ listenerPc \in {"unspawned", "spawned", "recv", "exited", "terminated"}
          => m_mutex # "listener"
    /\ ~PollInProgress => m_mutex # "caller"
    \* a thread waiting for it waits for a holder that can go on
    /\ (callerPc \in {"iga_lock", "gg_lock"} /\ m_mutex # "free")
          => (m_mutex = "listener" /\ ENABLED CriticalNext)
    /\ (listenerPc = "lock" /\ m_mutex # "free")
          => (m_mutex = "caller" /\ ENABLED PollNext)

\* C12: every call of isGazeAvailable or getGaze eventually returns, with
\* or without further datagrams: m_mutex is never locked by the thread that
\* holds it, is not held across the blocking receive, and no state is a
\* deadlock on it.
C12_PollReturns == []C12_State /\ (PollInProgress ~> callerPc = "idle")

\* getGaze waits for the mutex while the listener is in its critical section.
C12_Witness ==
    /\ callerPc = "gg_lock"
    /\ m_mutex = "listener"
    /\ listenerPc = "stamp"

\* C13: when the socket cannot be bound during construction,
\* createETVREyeTracker returns a null pointer: the exception does not reach
\* the caller, there is no instance to operate on, and no listening thread
\* exists (none was spawned, nothing holds the mutex, m_started is false).
C13_NoBackgroundTask ==
    /\ callerPc # "unwound"
    /\ callerPc \in {"throwing", "null"}
           => /\ listenerPc = "unspawned"
              /\ ~m_started
              /\ m_mutex = "free"
              /\ log = <<>>
              /\ ~ENABLED Start
              /\ ~ENABLED Run_Enter

C13_Return ==
    (callerPc = "throwing" /\ callerPc' # "throwing") => callerPc' = "null"

C13_BindFailureYieldsNull == []C13_NoBackgroundTask /\ [][C13_Return]_vars

C13_Witness == callerPc = "null" /\ listenerPc = "unspawned"

\* C14: for every triple (L, R, V) of [-1, 1] the combination step yields a
\* vector of magnitude 1 within the tolerance of the arithmetic: with
\* components in units of 1/10000 the squared magnitude differs from
\* 10000^2 by at most 4 * 10000, that is the magnitude lies within
\* 2/10000 of 1.
SquaredNorm(v) == v[1] * v[1] + v[2] * v[2] + v[3] * v[3]

IsUnit(v) ==
    LET d == SquaredNorm(v) - 10000 * 10000
    IN d <= 4 * 10000 /\ -d <= 4 * 10000

C14_UnitMagnitude ==
    /\ listenerPc \in {"lock", "write_1", "write_2", "write_3", "stamp"}
           => IsUnit(pmUnitVector)
    /\ \A g \in produced : IsUnit(g)
    /\ (HasValue(fresh) /\ m_mutex # "listener") => IsUnit(m_latestGaze)

C14_Witness ==
    /\ Combine(2, 2, -2) \in produced
    /\ m_latestGaze = Combine(2, 2, -2)
    /\ lastRecv["Y"] = Some(-2)

Samples == <<m_latestLeftX, m_latestRightX, m_latestY>>

SampleStored ==
    \E i \in 1..3 : Samples'[i] # Samples[i] /\ HasValue(Samples'[i])

SampleReset ==
    \E i \in 1..3 : Samples'[i] # Samples[i] /\ ~HasValue(Samples'[i])

C15_Step ==
    /\ (m_latestGaze' # m_latestGaze
           \/ m_lastReceivedTime' # m_lastReceivedTime
           \/ SampleReset)
           => m_mutex = "listener"
    /\ SampleStored
           => /\ m_mutex # "listener"
              /\ listenerPc = "recv"
              /\ callerPc' = callerPc
    /\ trackerVars' # trackerVars => listenerPc' # listenerPc \/ SampleStored

GazePair == <<m_latestGaze, m_lastReceivedTime>>

C16_Step ==
    GazePair' # GazePair
        => /\ m_mutex = "listener"
           /\ listenerPc \in {"write_1", "write_2", "write_3", "stamp"}
           /\ listenerPc' # listenerPc
           /\ callerPc' = callerPc
           /\ log' = log

C16_Pair ==
    /\ m_mutex # "listener"
           => GazePair = IF HasValue(fresh) THEN fresh ELSE <<ZeroVector, 0>>
    /\ listenerPc = "reset" => GazePair = <<pmUnitVector, pmNow>>

C16_GazeAndTimestampTogether == []C16_Pair /\ [][C16_Step]_vars

C16_Witness ==
    /\ HasValue(fresh)
    /\ fresh[2] > 0
    /\ fresh[1] # ZeroVector
    /\ GazePair = fresh
    /\ stopReturned
    /\ callerOp = "getGaze"
    /\ callerPc = "idle"
    /\ Len(log) = MaxMsgs

\* C17: a value received for a channel replaces the value the channel held,
\* so every present sample is the value most recently received for its
\* channel, and the vector of a combination is computed from the most
\* recently received value of each of the three channels.
C17_MostRecentValues ==
    /\ HasValue(m_latestLeftX) => m_latestLeftX = lastRecv["L"]
    /\ HasValue(m_latestRightX) => m_latestRightX = lastRecv["R"]
    /\ HasValue(m_latestY) => m_latestY = lastRecv["Y"]
    /\ listenerPc \in {"lock", "write_1", "write_2", "write_3", "stamp"}
           => pmUnitVector = Combine(Deref(lastRecv["L"]),
                                     Deref(lastRecv["R"]),
                                     Deref(lastRecv["Y"]))

\* The left channel was stored twice before the triple completed.
C17_Witness ==
    /\ log = <<"L", "L", "R", "Y">>
    /\ combinedAt = {}
    /\ listenerPc = "lock"
    /\ lastRecv["L"] = Some(2)
    /\ pmUnitVector = Combine(2, 0, 0)

\* C18: getGaze checks availability in one critical section and copies in a
\* second one. While it copies, the pair in the tracker is the pair the
\* check saw or the pair of a later combination, written completely; its
\* timestamp is less than the threshold older than the clock value the
\* check read; and what has been copied is that vector.
C18_CopiedIsCheckedOrLater ==
    callerPc \in {"gg_copy_1", "gg_copy_2", "gg_copy_3", "gg_copied"}
        => /\ callerAvail
           /\ callerNow - m_lastReceivedTime < StalenessThreshold
           /\ NumCombined >= callerSaw
           /\ GazePair = IF HasValue(fresh) THEN fresh ELSE <<ZeroVector, 0>>
           /\ \A i \in outWritten : out[i] = m_latestGaze[i]
           /\ callerPc = "gg_copied" => out = m_latestGaze

\* A combination completed between the check and the copy.
C18_Witness ==
    /\ callerPc = "gg_copied"
    /\ NumCombined > callerSaw
    /\ HasValue(fresh)
    /\ out = fresh[1]
    /\ out # ZeroVector
    /\ m_lastReceivedTime > callerNow

====
